---- MODULE Spec2Model ----
(***************************************************************************)
(* Model of the post-receive hook of erred/githook                         *)
(* (src/cmd/post-receive/main.go, lines 1-253).                            *)
(*                                                                         *)
(* A Go string is a sequence.  Text that the code cuts, trims or replaces  *)
(* character by character is written one character per element; text that *)
(* the code only copies or concatenates is written as whole literals.  The *)
(* empty string is << >>.                                                  *)
(***************************************************************************)
EXTENDS Integers, Sequences, FiniteSets, TLC

(* ------------------------------ bounds --------------------------------- *)

\* largest number of GIT_PUSH_OPTION_<i> variables the environment sets
MaxOpts == 2

\* longest repository name the sanitization is applied to on its own
MaxNameLen == 3

(* --------------------------- string helpers ---------------------------- *)

\* strings.Cut(s, "="): text before the first "=", text after it
RECURSIVE IndexOf(_, _, _)
IndexOf(s, ch, i) ==
    IF i > Len(s) THEN 0
    ELSE IF s[i] = ch THEN i
    ELSE IndexOf(s, ch, i + 1)

Cut(s, sep) ==
    LET i == IndexOf(s, sep, 1) IN
    IF i = 0 THEN [before |-> s, after |-> << >>, found |-> FALSE]
    ELSE [before |-> SubSeq(s, 1, i - 1),
          after  |-> SubSeq(s, i + 1, Len(s)),
          found  |-> TRUE]

\* strings.TrimSuffix(s, suffix)
TrimSuffix(s, suffix) ==
    IF Len(s) >= Len(suffix)
       /\ SubSeq(s, Len(s) - Len(suffix) + 1, Len(s)) = suffix
    THEN SubSeq(s, 1, Len(s) - Len(suffix))
    ELSE s

\* strings.ReplaceAll(s, old, new) for a one-character old
RECURSIVE ReplaceAll(_, _, _)
ReplaceAll(s, old, new) ==
    IF s = << >> THEN << >>
    ELSE IF Head(s) = old THEN new \o ReplaceAll(Tail(s), old, new)
    ELSE <<Head(s)>> \o ReplaceAll(Tail(s), old, new)

\* strings.TrimSpace(s): leading and trailing white space removed
IsSpace(ch) == ch \in {" ", "\n", "\t", "\r"}

RECURSIVE TrimLeft(_)
TrimLeft(s) ==
    IF s # << >> /\ IsSpace(Head(s)) THEN TrimLeft(Tail(s)) ELSE s

RECURSIVE TrimRight(_)
TrimRight(s) ==
    IF s # << >> /\ IsSpace(s[Len(s)])
    THEN TrimRight(SubSeq(s, 1, Len(s) - 1))
    ELSE s

TrimSpace(s) == TrimRight(TrimLeft(s))

\* filepath.Base(path) on a slash-separated path
RECURSIVE StripTrailingSlashes(_)
StripTrailingSlashes(s) ==
    IF s # << >> /\ s[Len(s)] = "/"
    THEN StripTrailingSlashes(SubSeq(s, 1, Len(s) - 1))
    ELSE s

RECURSIVE LastIndexOf(_, _, _)
LastIndexOf(s, ch, i) ==
    IF i = 0 THEN 0
    ELSE IF s[i] = ch THEN i
    ELSE LastIndexOf(s, ch, i - 1)

Base(path) ==
    IF path = << >> THEN <<".">>
    ELSE LET p == StripTrailingSlashes(path) IN
         IF p = << >> THEN <<"/">>
         ELSE SubSeq(p, LastIndexOf(p, "/", Len(p)) + 1, Len(p))

(* ------------------------------ errors --------------------------------- *)

\* a Go error value: nil, or an error with its Error() text
Nil == [isErr |-> FALSE, msg |-> << >>]
Err(m) == [isErr |-> TRUE, msg |-> m]

(* ---------------------------- push options ----------------------------- *)

CiSkip == <<"c", "i", ".", "s", "k", "i", "p">>

\* strconv.ParseInt(s, 10, 64) with the error dropped: an optional sign and
\* decimal digits give the number, anything else gives 0.  (Counts beyond
\* the int64 range are outside the values CountStrings draws.)
DigitVal(ch) ==
    CASE ch = "0" -> 0 [] ch = "1" -> 1 [] ch = "2" -> 2 [] ch = "3" -> 3
      [] ch = "4" -> 4 [] ch = "5" -> 5 [] ch = "6" -> 6 [] ch = "7" -> 7
      [] ch = "8" -> 8 [] ch = "9" -> 9 [] OTHER -> -1

RECURSIVE DigitsVal(_, _)
DigitsVal(s, acc) ==
    IF s = << >> THEN acc
    ELSE IF DigitVal(Head(s)) < 0 THEN -1
    ELSE DigitsVal(Tail(s), acc * 10 + DigitVal(Head(s)))

ParseInt(s) ==
    LET neg  == s # << >> /\ Head(s) = "-"
        body == IF s # << >> /\ Head(s) \in {"-", "+"} THEN Tail(s) ELSE s
        v    == IF body = << >> THEN -1 ELSE DigitsVal(body, 0)
    IN  IF v < 0 THEN 0
        ELSE IF neg THEN 0 - v
        ELSE v

\* os.Getenv("GIT_PUSH_OPTION_<i>"): the i-th entry, "" when unset
GetenvOption(opts, i) == IF i + 1 <= Len(opts) THEN opts[i + 1] ELSE << >>

\* the loop of run() keeping the first value of a repeated key
RECURSIVE PushOptionsLoopFirstWins(_, _, _, _)
PushOptionsLoopFirstWins(opts, n, i, m) ==
    IF i >= n THEN m
    ELSE LET c == Cut(GetenvOption(opts, i), "=")
             k == c.before
             v == c.after
         IN  PushOptionsLoopFirstWins(opts, n, i + 1,
                [x \in (DOMAIN m) \cup {k} |-> IF x \in DOMAIN m THEN m[x] ELSE v])

\* the loop of run(): pushOptions[k] = v for i = 0 .. n-1, last write wins
RECURSIVE PushOptionsLoop(_, _, _, _)
PushOptionsLoop(opts, n, i, m) ==
    IF i >= n THEN m
    ELSE LET c == Cut(GetenvOption(opts, i), "=")
             k == c.before
             v == c.after
         IN  PushOptionsLoop(opts, n, i + 1,
                [x \in (DOMAIN m) \cup {k} |-> IF x = k THEN v ELSE m[x]])

ParsePushOptions(count, opts) ==
    PushOptionsLoop(opts, ParseInt(count), 0, << >>)

\* line 76: _, ok := pushOptions["ci.skip"]
SkipDecision(m) == CiSkip \in DOMAIN m

\* the values GIT_PUSH_OPTION_COUNT takes
CountStrings ==
    { << >>, <<"x">>, <<"-", "1">> } \cup
    { <<ch>> : ch \in { c \in {"0", "1", "2", "3", "4"} : DigitVal(c) <= MaxOpts } }

\* the values a GIT_PUSH_OPTION_<i> variable takes
OptionEntries ==
    { CiSkip,
      CiSkip \o <<"=", "1">>,
      <<"a", "=", "b">>,
      <<"=">> \o CiSkip }

RECURSIVE SeqsUpTo(_, _)
SeqsUpTo(S, n) ==
    IF n = 0 THEN { << >> }
    ELSE LET shorter == SeqsUpTo(S, n - 1) IN
         shorter \cup { Append(s, e) : s \in { t \in shorter : Len(t) = n - 1 }, e \in S }

OptionEnvs == SeqsUpTo(OptionEntries, MaxOpts)

(* --------------------------- the repository ---------------------------- *)

\* commit ids of the repository the hook runs in
Commits == { <<"c1">>, <<"c2">> }

\* what git prints for a commit: %B, %an, %ae (each followed by a newline)
CommitMessage(c) == IF c = <<"c1">> THEN <<"fix bug">> ELSE <<"add feature">>
CommitAuthor(c)  == IF c = <<"c1">> THEN <<"Jane Doe">> ELSE <<"John Roe">>
CommitEmail(c)   == IF c = <<"c1">> THEN <<"jane@example.com">> ELSE <<"john@example.com">>

\* ref names a push updates
Refs == { <<"refs/heads/", "main">>, <<"refs/heads/", "feat">> }

\* git rev-parse --abbrev-ref <ref>: the short name of the ref
AbbrevRef(ref) ==
    IF ref # << >> /\ Head(ref) = "refs/heads/" THEN Tail(ref) ELSE ref

\* contents ci.cue can have at a revision
CueDocs == { "absent", "invalid", "empty", "pipeline" }

\* cuecontext.New().CompileBytes(b).Decode(&ciConfig), line 248: the value
\* left in ciConfig and the error.  An invalid document can fail after the
\* decoder has already filled a field.
ZeroCIConfig == [pipeline |-> << >>]

CueDecode(doc) ==
    CASE doc = "pipeline" -> [cfg |-> [pipeline |-> <<"deploy">>], err |-> Nil]
      [] doc = "empty"    -> [cfg |-> ZeroCIConfig, err |-> Nil]
      [] OTHER            -> [cfg |-> [pipeline |-> <<"half">>],
                              err |-> Err(<<"cue decode ci.cue: ">> \o <<"invalid">>)]

\* working directories os.Getwd can report
Dirs ==
    { <<"/", "s", "/", "a", ".", "b", ".", "g", "i", "t">>,
      <<"/", "s", "/", "r">>,
      <<"/">> }

\* first lines standard input can hold, as white-space separated tokens
OldRev == <<"c0">>

StdinLines ==
    { << >>, <<OldRev, <<"c1">>>> }
    \cup { <<OldRev, c, r>> : c \in Commits, r \in Refs }
    \cup { <<OldRev, <<"c1">>, <<"refs/heads/", "main">>, <<"extra">>>> }

(* ------------------------------- HTTP ---------------------------------- *)

StatusCodes == { 199, 200, 299, 300 }

\* the status test of lines 151 and 206
StatusUnexpected(code) == code < 200 \/ code > 299

Is2xx(code) == ~StatusUnexpected(code)

\* response bodies: a JSON object as a set of <<field, string>> pairs, or
\* text that is not JSON
NotJSON == [json |-> FALSE, object |-> {}]
JSONObject(pairs) == [json |-> TRUE, object |-> pairs]

BuildkiteBodies ==
    { NotJSON,
      JSONObject({ <<"state", <<"scheduled">>>>, <<"web_url", <<"https://x/y">>>> }) }

TektonBodies ==
    { NotJSON,
      JSONObject({ <<"eventListenerUID", <<"u1">>>>, <<"eventID", <<"e1">>>> }) }

\* what http.DefaultClient.Do returns: a transport error or a response
\* (the body of a response outside 2xx is only copied to standard output)
HTTPOutcomes(bodies) ==
    { [kind |-> "transport", status |-> 0, body |-> NotJSON] }
    \cup { [kind |-> "response", status |-> s, body |-> b] :
             s \in { c \in StatusCodes : Is2xx(c) }, b \in bodies }
    \cup { [kind |-> "response", status |-> s, body |-> NotJSON] :
             s \in { c \in StatusCodes : ~Is2xx(c) } }

\* json.NewDecoder(res.Body).Decode(&response): a field of the decoded
\* struct, the zero value when the object lacks it
JSONField(body, field) ==
    IF \E p \in body.object : p[1] = field
    THEN (CHOOSE p \in body.object : p[1] = field)[2]
    ELSE << >>

\* environment values of the adapters' credentials ("" when unset)
OrgValues      == { << >>, <<"acme">> }
TokenValues    == { << >>, <<"secret">> }
EndpointValues == { << >>, <<"http://el.example/hook">>, <<":">> }

\* http.NewRequest fails on a URL that does not parse
URLParses(u) == u # <<":">>

(* ------------------------------ state ---------------------------------- *)

VARIABLES
    pc,                 \* position of the process in main/run
    env,                \* environment: the adapters' credential variables
    head,               \* repository: the commit HEAD points to
    ciCue,              \* repository: ci.cue as committed at the revision asked for
    pushOptions,        \* run: the pushOptions map
    repoName,           \* run: repoName (line 86)
    oldRev, newRev, refName,   \* run: the scanned input tokens
    commit, branch, message, author, email,   \* run: the commit metadata
    ciConfig,           \* run: the decoded CIConfig
    cfgErr,             \* run: the error of readCIConfig
    bkErr,              \* run: the error the buildkite closure returned
    buildkiteResponse,  \* run: buildkiteResponse
    tkErr,              \* run: the error the tekton closure returned
    tektonResponse,     \* run: tektonResponse
    runErr,             \* the error run returns to main
    exitCode,           \* process exit status, -1 while running
    stdout,             \* lines written to standard output
    stderr,             \* records written through lg / log to standard error
    gitLog,             \* git command lines executed
    httpLog,            \* HTTP requests handed to http.DefaultClient.Do
    probe,              \* a function of the hook applied on its own: input and results
    pre                 \* the pre-commit runner (src/cmd/pre-commit/main.go)

world   == <<env, head, ciCue>>
inputs  == <<repoName, oldRev, newRev, refName>>
meta    == <<commit, branch, message, author, email>>
config  == <<ciConfig, cfgErr>>
bkVars  == <<bkErr, buildkiteResponse>>
tkVars  == <<tkErr, tektonResponse>>
outputs == <<stdout, stderr, gitLog, httpLog>>

hookVars == <<pc, world, pushOptions, inputs, meta, config, bkVars, tkVars,
              runErr, exitCode, outputs>>

\* state outside the post-receive process
aux == <<probe, pre>>

vars == <<hookVars, aux>>

NoProbe == [op |-> "none"]
PreOff  == [pc |-> "off"]

Running == -1

\* a record on standard error; the text handler of line 61 keeps records of
\* level Info and above, so the Debug records of lines 164 and 218 leave
\* nothing
LogRec(level, text) == [level |-> level, msg |-> text]

\* the local variables of run and the output streams at process start
HookLocals ==
    /\ pushOptions = << >>
    /\ repoName = << >>
    /\ oldRev = << >> /\ newRev = << >> /\ refName = << >>
    /\ commit = << >> /\ branch = << >> /\ message = << >>
    /\ author = << >> /\ email = << >>
    /\ ciConfig = ZeroCIConfig
    /\ cfgErr = Nil
    /\ bkErr = Nil
    /\ buildkiteResponse = << >>
    /\ tkErr = Nil
    /\ tektonResponse = << >>
    /\ runErr = Nil
    /\ exitCode = Running
    /\ stdout = << >>
    /\ stderr = << >>
    /\ gitLog = << >>
    /\ httpLog = << >>

Init ==
    /\ pc = "gate"
    /\ env \in [BUILDKITE_ORG_SLUG : OrgValues,
                BUILDKITE_API_TOKEN : TokenValues,
                TEKTON_TRIGGERS_ENDPOINT : EndpointValues]
    /\ head \in Commits
    /\ ciCue = "unread"
    /\ HookLocals
    /\ probe = NoProbe
    /\ pre = PreOff

\* the post-receive process not started
HookIdle ==
    /\ pc = "idle"
    /\ env = [BUILDKITE_ORG_SLUG |-> << >>,
              BUILDKITE_API_TOKEN |-> << >>,
              TEKTON_TRIGGERS_ENDPOINT |-> << >>]
    /\ head = <<"c1">>
    /\ ciCue = "unread"
    /\ HookLocals

\* Gate with the skip test reading the option's value instead of its presence
GateSkipNeedsValue ==
    /\ pc = "gate"
    /\ \E count \in CountStrings, opts \in OptionEnvs :
         LET m == ParsePushOptions(count, opts) IN
         /\ pushOptions' = m
         /\ IF CiSkip \in DOMAIN m /\ m[CiSkip] # << >>
            THEN /\ stderr' = Append(stderr, LogRec("INFO", <<"skipping ci">>))
                 /\ runErr' = Nil
                 /\ pc' = "main_return"
            ELSE /\ pc' = "getwd"
                 /\ UNCHANGED <<stderr, runErr>>
    /\ UNCHANGED <<aux, world, inputs, meta, config, bkVars, tkVars, exitCode,
                   stdout, gitLog, httpLog>>

\* run, lines 69-79: build pushOptions from the environment, skip on ci.skip
Gate ==
    /\ pc = "gate"
    /\ \E count \in CountStrings, opts \in OptionEnvs :
         LET m == ParsePushOptions(count, opts) IN
         /\ pushOptions' = m
         /\ IF SkipDecision(m)
            THEN /\ stderr' = Append(stderr, LogRec("INFO", <<"skipping ci">>))
                 /\ runErr' = Nil
                 /\ pc' = "main_return"
            ELSE /\ pc' = "getwd"
                 /\ UNCHANGED <<stderr, runErr>>
    /\ UNCHANGED <<aux, world, inputs, meta, config, bkVars, tkVars, exitCode,
                   stdout, gitLog, httpLog>>

\* run, lines 81-86: the working directory gives the repository name
Getwd ==
    /\ pc = "getwd"
    /\ \/ /\ stderr' = Append(stderr, LogRec("ERROR", <<"failed to get working directory">>))
          /\ runErr' = Err(<<"getwd: no such file or directory">>)
          /\ pc' = "main_return"
          /\ UNCHANGED repoName
       \/ \E dir \in Dirs :
          /\ repoName' = TrimSuffix(Base(dir), <<".", "g", "i", "t">>)
          /\ pc' = "scan"
          /\ UNCHANGED <<stderr, runErr>>
    /\ UNCHANGED <<aux, world, pushOptions, oldRev, newRev, refName, meta, config,
                   bkVars, tkVars, exitCode, stdout, gitLog, httpLog>>

\* fmt.Scanln(&oldRev, &newRev, &refName): tokens are stored as they are
\* read; fewer or more than three tokens on the line is an error
Token(line, i) == IF i <= Len(line) THEN line[i] ELSE << >>

ScanlnErr(line) ==
    IF line = << >> THEN Err(<<"EOF">>)
    ELSE IF Len(line) < 3 THEN Err(<<"unexpected newline">>)
    ELSE IF Len(line) > 3 THEN Err(<<"expected newline">>)
    ELSE Nil

\* run, lines 88-93: scan the input line
Scan ==
    /\ pc = "scan"
    /\ \E line \in StdinLines :
         /\ oldRev' = Token(line, 1)
         /\ newRev' = Token(line, 2)
         /\ refName' = Token(line, 3)
         /\ IF ScanlnErr(line).isErr
            THEN /\ stderr' = Append(stderr, LogRec("ERROR", <<"failed to scan post-receive input">>))
                 /\ runErr' = ScanlnErr(line)
                 /\ pc' = "main_return"
            ELSE /\ pc' = "branch"
                 /\ UNCHANGED <<stderr, runErr>>
    /\ UNCHANGED <<aux, world, pushOptions, repoName, meta, config, bkVars, tkVars,
                   exitCode, stdout, gitLog, httpLog>>

\* main ending with os.Exit(1) when run returned an error
MainReturnExitsOnError ==
    /\ pc = "main_return"
    /\ stderr' = IF runErr.isErr
                 THEN Append(stderr, LogRec("ERROR", <<"failed">> \o runErr.msg))
                 ELSE stderr
    /\ exitCode' = IF runErr.isErr THEN 1 ELSE 0
    /\ pc' = "exited"
    /\ UNCHANGED <<aux, world, pushOptions, inputs, meta, config, bkVars, tkVars,
                   runErr, stdout, gitLog, httpLog>>

\* main, lines 62-66: log the error run returned, then return from main
MainReturn ==
    /\ pc = "main_return"
    /\ stderr' = IF runErr.isErr
                 THEN Append(stderr, LogRec("ERROR", <<"failed">> \o runErr.msg))
                 ELSE stderr
    /\ exitCode' = 0
    /\ pc' = "exited"
    /\ UNCHANGED <<aux, world, pushOptions, inputs, meta, config, bkVars, tkVars,
                   runErr, stdout, gitLog, httpLog>>

\* mustExecGit, lines 233-240: what one git command line prints, trimmed;
\* a non-zero exit status ends the process through log.Fatalln
GitOutput(args) ==
    CASE args[1] = "rev-parse"   -> AbbrevRef(args[3]) \o <<"\n">>
      [] args[4] = "--format=%B" -> CommitMessage(head) \o <<"\n", "\n">>
      [] args[4] = "--format=%an" -> CommitAuthor(head) \o <<"\n">>
      [] args[4] = "--format=%ae" -> CommitEmail(head) \o <<"\n">>

MustExecGitFatal(args) ==
    /\ gitLog' = Append(gitLog, args)
    /\ stderr' = stderr \o << LogRec("LOG", <<"output">>),
                             LogRec("FATAL", <<"run git">>) >>
    /\ exitCode' = 1
    /\ pc' = "exited"

MustExecGitOk(args, next) ==
    /\ gitLog' = Append(gitLog, args)
    /\ pc' = next
    /\ UNCHANGED <<stderr, exitCode>>

BranchArgs  == <<"rev-parse", "--abbrev-ref", refName>>
MessageArgs == <<"log", "-1", "HEAD", "--format=%B", "--">>
AuthorArgs  == <<"log", "-1", "HEAD", "--format=%an", "--">>
EmailArgs   == <<"log", "-1", "HEAD", "--format=%ae", "--">>

\* run, lines 95-96
ExecBranch ==
    /\ pc = "branch"
    /\ commit' = newRev
    /\ \/ /\ MustExecGitOk(BranchArgs, "message")
          /\ branch' = TrimSpace(GitOutput(BranchArgs))
       \/ /\ MustExecGitFatal(BranchArgs)
          /\ UNCHANGED branch
    /\ UNCHANGED <<aux, world, pushOptions, inputs, message, author, email, config,
                   bkVars, tkVars, runErr, stdout, httpLog>>

\* run, line 97
ExecMessage ==
    /\ pc = "message"
    /\ \/ /\ MustExecGitOk(MessageArgs, "author")
          /\ message' = TrimSpace(GitOutput(MessageArgs))
       \/ /\ MustExecGitFatal(MessageArgs)
          /\ UNCHANGED message
    /\ UNCHANGED <<aux, world, pushOptions, inputs, commit, branch, author, email,
                   config, bkVars, tkVars, runErr, stdout, httpLog>>

\* run, line 98
ExecAuthor ==
    /\ pc = "author"
    /\ \/ /\ MustExecGitOk(AuthorArgs, "email")
          /\ author' = TrimSpace(GitOutput(AuthorArgs))
       \/ /\ MustExecGitFatal(AuthorArgs)
          /\ UNCHANGED author
    /\ UNCHANGED <<aux, world, pushOptions, inputs, commit, branch, message, email,
                   config, bkVars, tkVars, runErr, stdout, httpLog>>

\* ExecEmail with the failure logged but not fatal
ExecEmailNoFatal ==
    /\ pc = "email"
    /\ \/ /\ MustExecGitOk(EmailArgs, "config")
          /\ email' = TrimSpace(GitOutput(EmailArgs))
       \/ /\ gitLog' = Append(gitLog, EmailArgs)
          /\ stderr' = stderr \o << LogRec("LOG", <<"output">>),
                                   LogRec("FATAL", <<"run git">>) >>
          /\ email' = << >>
          /\ pc' = "config"
          /\ UNCHANGED exitCode
    /\ UNCHANGED <<aux, world, pushOptions, inputs, commit, branch, message, author,
                   config, bkVars, tkVars, runErr, stdout, httpLog>>

\* run, line 99
ExecEmail ==
    /\ pc = "email"
    /\ \/ /\ MustExecGitOk(EmailArgs, "config")
          /\ email' = TrimSpace(GitOutput(EmailArgs))
       \/ /\ MustExecGitFatal(EmailArgs)
          /\ UNCHANGED email
    /\ UNCHANGED <<aux, world, pushOptions, inputs, commit, branch, message, author,
                   config, bkVars, tkVars, runErr, stdout, httpLog>>

\* the command line of line 243
CatFileArgs(rev) == <<"cat-file", rev \o <<":ci.cue">>>>

\* git cat-file: the object must be preceded by a type or a mode option
\* (git cat-file <type> <object>, git cat-file -p <object>).  Given the
\* object alone, git prints "fatal: only two arguments allowed in
\* <type> <object> mode, not 1" and its usage, and exits with status 129,
\* whether or not the object exists.  Otherwise it prints the document at
\* the object, and fails when there is none.
GitCatFile(args, doc) ==
    IF Len(args) < 3 \/ doc = "absent"
    THEN [ok |-> FALSE, out |-> "absent"]
    ELSE [ok |-> TRUE, out |-> doc]

\* readCIConfig, lines 242-253: the CIConfig and the error it returns when
\* the repository holds doc at rev:ci.cue
ReadCIConfigResult(rev, doc) ==
    LET g == GitCatFile(CatFileArgs(rev), doc) IN
    IF ~g.ok
    THEN [cfg |-> ZeroCIConfig,
          err |-> Err(<<"git cat-file ">> \o rev \o <<":ci.cue: exit status">>)]
    ELSE LET d == CueDecode(g.out) IN
         IF d.err.isErr
         THEN [cfg |-> ZeroCIConfig, err |-> d.err]
         ELSE [cfg |-> d.cfg, err |-> Nil]

\* ReadCIConfig with a configuration failure treated as fatal
ReadCIConfigFatal ==
    /\ pc = "config"
    /\ \E doc \in CueDocs :
         LET r == ReadCIConfigResult(newRev, doc) IN
         /\ ciCue' = doc
         /\ gitLog' = Append(gitLog, CatFileArgs(newRev))
         /\ ciConfig' = r.cfg
         /\ cfgErr' = r.err
         /\ IF r.err.isErr
            THEN /\ stderr' = Append(stderr, LogRec("FATAL", <<"failed to get ci.cue">>))
                 /\ exitCode' = 1
                 /\ pc' = "exited"
            ELSE /\ pc' = "buildkite"
                 /\ UNCHANGED <<stderr, exitCode>>
    /\ UNCHANGED <<aux, env, head, pushOptions, inputs, meta, bkVars, tkVars, runErr,
                   stdout, httpLog>>

\* run, lines 100-103: read the configuration, warn when that fails
ReadCIConfig ==
    /\ pc = "config"
    /\ \E doc \in CueDocs :
         LET r == ReadCIConfigResult(newRev, doc) IN
         /\ ciCue' = doc
         /\ gitLog' = Append(gitLog, CatFileArgs(newRev))
         /\ ciConfig' = r.cfg
         /\ cfgErr' = r.err
         /\ stderr' = IF r.err.isErr
                      THEN Append(stderr, LogRec("WARN", <<"failed to get ci.cue">>))
                      ELSE stderr
    /\ pc' = "buildkite"
    /\ UNCHANGED <<aux, env, head, pushOptions, inputs, meta, bkVars, tkVars, runErr,
                   exitCode, stdout, httpLog>>

\* a client that sends the request again when the first send has returned
DoWithRetry(req) == httpLog \o <<req, req>>

\* http.DefaultClient.Do(req): the request goes out once
Do(req) == Append(httpLog, req)

\* json.Marshal of BuildkitePayload (lines 44-53, 119-129)
BuildkitePayload ==
    [commit  |-> commit,
     branch  |-> branch,
     message |-> message,
     author  |-> [name |-> author, email |-> email]]

\* SanitizeRepoName with only the first "." replaced (strings.Replace, n = 1)
RECURSIVE ReplaceFirst(_, _, _)
ReplaceFirst(s, old, new) ==
    IF s = << >> THEN << >>
    ELSE IF Head(s) = old THEN new \o Tail(s)
    ELSE <<Head(s)>> \o ReplaceFirst(Tail(s), old, new)

SanitizeFirstDotOnly(name) == ReplaceFirst(name, ".", <<"-", "d", "o", "t", "-">>)

\* the repository name as the buildkite closure addresses it (line 117)
SanitizeRepoName(name) == ReplaceAll(name, ".", <<"-", "d", "o", "t", "-">>)

\* line 117 written as an assignment to the repoName of run
RepoNameAssigned(name) == repoName' = name

\* line 117 declares a repoName of the closure; the one of run is untouched
RepoNameShadowed(name) == UNCHANGED repoName

BuildkiteURL(o, name) ==
    <<"https://api.buildkite.com/v2/organizations/">> \o o
      \o <<"/pipelines/">> \o name \o <<"/builds">>

BuildkiteSummary(body) ==
    JSONField(body, "state") \o <<":\t">> \o JSONField(body, "web_url")

\* lines 168-171: what run keeps of the closure's result
BuildkiteRecord(resp, err) ==
    /\ bkErr' = err
    /\ buildkiteResponse' = IF err.isErr THEN err.msg ELSE resp

\* run, lines 105-171: the buildkite closure and the handling of its result
Buildkite ==
    /\ pc = "buildkite"
    /\ \E out \in HTTPOutcomes(BuildkiteBodies) :
         LET o    == env.BUILDKITE_ORG_SLUG
             t    == env.BUILDKITE_API_TOKEN
             name == SanitizeRepoName(repoName)
             req  == [backend |-> "buildkite",
                      url     |-> BuildkiteURL(o, name),
                      auth    |-> <<"Bearer ">> \o t,
                      body    |-> BuildkitePayload]
             sendErr == LogRec("ERROR", <<"send to buildkite">>)
         IN
         IF o = << >>
            THEN /\ BuildkiteRecord(<< >>, Err(<<"no BUILDKITE_ORG_SLUG found">>))
                 /\ stderr' = Append(stderr, sendErr)
                 /\ pc' = "tekton"
                 /\ UNCHANGED <<httpLog, stdout, exitCode>>
            ELSE
               IF t = << >>
               THEN /\ BuildkiteRecord(<< >>, Err(<<"no BUILDKITE_API_TOKEN found">>))
                    /\ stderr' = Append(stderr, sendErr)
                    /\ pc' = "tekton"
                    /\ UNCHANGED <<httpLog, stdout, exitCode>>
               ELSE
               /\ httpLog' = Do(req)
               /\ CASE out.kind = "transport" ->
                         /\ BuildkiteRecord(<< >>, Err(<<"Post: dial tcp: connection refused">>))
                         /\ stderr' = stderr \o
                              << LogRec("ERROR", <<"failed to send request to buildkite">>),
                                 sendErr >>
                         /\ pc' = "tekton"
                         /\ UNCHANGED <<stdout, exitCode>>
                    [] out.kind = "response" /\ StatusUnexpected(out.status) ->
                         /\ stdout' = stdout \o << <<"response body">>, << >> >>
                         /\ stderr' = stderr \o
                              << LogRec("LOG", <<"url">>),
                                 LogRec("LOG", <<"body">>),
                                 LogRec("FATAL", <<"unexpected response from buildkite">>) >>
                         /\ exitCode' = 1
                         /\ pc' = "exited"
                         /\ UNCHANGED <<bkErr, buildkiteResponse>>
                    [] out.kind = "response" /\ ~StatusUnexpected(out.status)
                         /\ ~out.body.json ->
                         /\ BuildkiteRecord(<< >>, Err(<<"invalid character">>))
                         /\ stderr' = stderr \o
                              << LogRec("ERROR", <<"failed to read response">>),
                                 sendErr >>
                         /\ pc' = "tekton"
                         /\ UNCHANGED <<stdout, exitCode>>
                    [] OTHER ->
                         /\ BuildkiteRecord(BuildkiteSummary(out.body), Nil)
                         /\ pc' = "tekton"
                         /\ UNCHANGED <<stdout, stderr, exitCode>>
    /\ RepoNameShadowed(SanitizeRepoName(repoName))
    /\ UNCHANGED <<aux, world, pushOptions, oldRev, newRev, refName, meta, config,
                   tkVars, runErr, gitLog>>

\* TektonPayload with the message looked up again, at the pushed revision
TektonPayloadRereads ==
    LET base == [repo    |-> repoName,
                 branch  |-> branch,
                 commit  |-> commit,
                 message |-> CommitMessage(newRev),
                 author  |-> author,
                 email   |-> email]
    IN  IF ciConfig.pipeline = << >> THEN base
        ELSE [f \in (DOMAIN base) \cup {"tektonPipeline"} |->
                IF f = "tektonPipeline" THEN ciConfig.pipeline ELSE base[f]]

\* json.Marshal of TektonPayload (lines 29-37, 180-190): tektonPipeline is
\* omitted when empty
TektonPayload ==
    LET base == [repo    |-> repoName,
                 branch  |-> branch,
                 commit  |-> commit,
                 message |-> message,
                 author  |-> author,
                 email   |-> email]
    IN  IF ciConfig.pipeline = << >> THEN base
        ELSE [f \in (DOMAIN base) \cup {"tektonPipeline"} |->
                IF f = "tektonPipeline" THEN ciConfig.pipeline ELSE base[f]]

TektonSummary(body) == <<"event-id:\t">> \o JSONField(body, "eventID")

\* lines 222-224: what run keeps of the closure's result
TektonRecord(resp, err) ==
    /\ tkErr' = err
    /\ tektonResponse' = resp

\* run, lines 173-224: the tekton closure and the handling of its result
Tekton ==
    /\ pc = "tekton"
    /\ \E out \in HTTPOutcomes(TektonBodies) :
         LET e   == env.TEKTON_TRIGGERS_ENDPOINT
             req == [backend |-> "tekton",
                     url     |-> e,
                     auth    |-> << >>,
                     body    |-> TektonPayload]
             sendErr == LogRec("ERROR", <<"send to tekton">>)
         IN
         IF e = << >>
            THEN /\ TektonRecord(<< >>, Err(<<"no TEKTON_TRIGGERS_ENDPOINT provided">>))
                 /\ stderr' = Append(stderr, sendErr)
                 /\ pc' = "report"
                 /\ UNCHANGED <<httpLog, stdout, exitCode>>
            ELSE IF ~URLParses(e)
            THEN /\ TektonRecord(<< >>, Err(<<"parse: missing protocol scheme">>))
                 /\ stderr' = stderr \o
                      << LogRec("ERROR", <<"failed to create request">>), sendErr >>
                 /\ pc' = "report"
                 /\ UNCHANGED <<httpLog, stdout, exitCode>>
            ELSE
            /\ httpLog' = Do(req)
            /\ CASE out.kind = "transport" ->
                      /\ TektonRecord(<< >>, Err(<<"Post: dial tcp: connection refused">>))
                      /\ stderr' = stderr \o
                           << LogRec("ERROR", <<"failed to send request to tekton">>),
                              sendErr >>
                      /\ pc' = "report"
                      /\ UNCHANGED <<stdout, exitCode>>
                 [] out.kind = "response" /\ StatusUnexpected(out.status) ->
                      /\ stdout' = stdout \o << <<"response body">>, << >> >>
                      /\ stderr' = stderr \o
                           << LogRec("LOG", <<"body">>),
                              LogRec("FATAL", <<"unexpected response from tekton">>) >>
                      /\ exitCode' = 1
                      /\ pc' = "exited"
                      /\ UNCHANGED <<tkErr, tektonResponse>>
                 [] out.kind = "response" /\ ~StatusUnexpected(out.status)
                      /\ ~out.body.json ->
                      /\ TektonRecord(<< >>, Err(<<"invalid character">>))
                      /\ stderr' = stderr \o
                           << LogRec("ERROR", <<"failed to read response">>),
                              sendErr >>
                      /\ pc' = "report"
                      /\ UNCHANGED <<stdout, exitCode>>
                 [] OTHER ->
                      /\ TektonRecord(TektonSummary(out.body), Nil)
                      /\ pc' = "report"
                      /\ UNCHANGED <<stdout, stderr, exitCode>>
    /\ UNCHANGED <<aux, world, pushOptions, inputs, meta, config, bkVars, runErr,
                   gitLog>>

\* the report block of lines 226-229
ReportBlock ==
    << << >>,
       <<"\tbuildkite: ">> \o buildkiteResponse,
       <<"\ttekton: ">> \o tektonResponse,
       << >> >>

\* Report written as soon as the buildkite closure has returned
ReportBeforeTekton ==
    /\ pc \in { "tekton", "report" }
    /\ stdout' = stdout \o ReportBlock
    /\ runErr' = Nil
    /\ pc' = "main_return"
    /\ UNCHANGED <<aux, world, pushOptions, inputs, meta, config, bkVars, tkVars,
                   exitCode, stderr, gitLog, httpLog>>

\* run, lines 226-230: print the report and return nil
Report ==
    /\ pc = "report"
    /\ stdout' = stdout \o ReportBlock
    /\ runErr' = Nil
    /\ pc' = "main_return"
    /\ UNCHANGED <<aux, world, pushOptions, inputs, meta, config, bkVars, tkVars,
                   exitCode, stderr, gitLog, httpLog>>

Next ==
    \/ Gate \/ Getwd \/ Scan
    \/ ExecBranch \/ ExecMessage \/ ExecAuthor \/ ExecEmail
    \/ ReadCIConfig
    \/ Buildkite \/ Tekton \/ Report
    \/ MainReturn

Spec == Init /\ [][Next]_vars

(* ------------------- the sanitization on its own ----------------------- *)

\* characters of repository names
NameChars == { ".", "a", "-", "d" }

RepoNames == SeqsUpTo(NameChars, MaxNameLen)

SanitizeInit ==
    /\ HookIdle
    /\ pre = PreOff
    /\ \E n \in RepoNames :
         probe = [op |-> "sanitize", stage |-> "in", name |-> n,
                  once |-> << >>, twice |-> << >>]

\* line 117 applied to the name
SanitizeOnce ==
    /\ probe.op = "sanitize" /\ probe.stage = "in"
    /\ probe' = [probe EXCEPT !.stage = "once",
                              !.once = SanitizeRepoName(probe.name)]
    /\ UNCHANGED <<hookVars, pre>>

\* line 117 applied to its own result
SanitizeAgain ==
    /\ probe.op = "sanitize" /\ probe.stage = "once"
    /\ probe' = [probe EXCEPT !.stage = "twice",
                              !.twice = SanitizeRepoName(probe.once)]
    /\ UNCHANGED <<hookVars, pre>>

SanitizeNext == SanitizeOnce \/ SanitizeAgain

SanitizeSpec == SanitizeInit /\ [][SanitizeNext]_vars

(* ------------------- the skip decision on its own ---------------------- *)

OptionsInit ==
    /\ HookIdle
    /\ pre = PreOff
    /\ \E count \in CountStrings, opts \in OptionEnvs :
         probe = [op |-> "options", stage |-> "in", count |-> count,
                  opts |-> opts, m |-> << >>, outcome |-> "none"]

\* lines 69-79 applied to the environment: the map, then return nil or go on
DecideSkip ==
    /\ probe.op = "options" /\ probe.stage = "in"
    /\ LET m == ParsePushOptions(probe.count, probe.opts) IN
       probe' = [probe EXCEPT !.stage = "done",
                              !.m = m,
                              !.outcome = IF SkipDecision(m) THEN "skip"
                                          ELSE "continue"]
    /\ UNCHANGED <<hookVars, pre>>

OptionsNext == DecideSkip

OptionsSpec == OptionsInit /\ [][OptionsNext]_vars

(* ------------------------ the pre-commit runner ------------------------ *)

\* filepath.Ext: the suffix of the name from its last "."
Ext(name) ==
    LET i == LastIndexOf(name, ".", Len(name)) IN
    IF i = 0 THEN << >> ELSE SubSeq(name, i, Len(name))

\* the files a working tree can hold; underGit: inside the .git directory
TreeEntries ==
    { [name |-> <<"a", ".", "m", "d">>,      underGit |-> FALSE],
      [name |-> <<"m", ".", "g", "o">>,      underGit |-> FALSE],
      [name |-> <<"c", ".", "c", "u", "e">>, underGit |-> FALSE],
      [name |-> <<"i", ".", "t", "f">>,      underGit |-> FALSE],
      [name |-> <<"n">>,                     underGit |-> FALSE],
      [name |-> <<"h", ".", "g", "o">>,      underGit |-> TRUE] }

Trees == SUBSET TreeEntries

\* the files the walk hands to the switch: .git is skipped (lines 63-68)
Walked(tree) == { e \in tree : ~e.underGit }

PrettierExts ==
    { <<".", "c", "s", "s">>, <<".", "h", "t", "m", "l">>,
      <<".", "j", "s", "o", "n">>, <<".", "m", "d">>,
      <<".", "y", "a", "m", "l">> }

\* a tool whose non-zero exit the loop passes over
ToolAllowFail(name) == [name |-> name, allowfail |-> TRUE]

\* a tool literal of selectTools: allowfail is never set
Tool(name) == [name |-> name, allowfail |-> FALSE]

\* selectTools, lines 60-173, for a walk that returned no error
SelectTools(tree) ==
    LET exts      == { Ext(e.name) : e \in Walked(tree) }
        prettier  == exts \cap PrettierExts # {}
        gofiles   == { e \in Walked(tree) : Ext(e.name) = <<".", "g", "o">> }
        cuefiles  == { e \in Walked(tree) : Ext(e.name) = <<".", "c", "u", "e">> }
        terraform == <<".", "t", "f">> \in exts
        t1 == IF prettier THEN <<Tool("prettier")>> ELSE << >>
        t2 == IF cuefiles # {} THEN Append(t1, Tool("cue fmt")) ELSE t1
        t3 == IF terraform THEN Append(t2, Tool("terraform fmt")) ELSE t2
        t4 == IF gofiles # {}
              THEN t3 \o <<Tool("go mod tidy"), Tool("gofumpt"), Tool("go vet"),
                           Tool("staticcheck"), Tool("go build")>>
              ELSE t3
    IN  IF Len(t4) > 0 THEN Append(t4, Tool("git commit")) ELSE t4

\* what tool.run returns: nil, an *exec.ExitError, or another error
ToolOutcomes == { "ok", "exit", "error" }

PreCommitInit ==
    /\ HookIdle
    /\ probe = NoProbe
    /\ \E t \in Trees :
         pre = [pc |-> "select", tree |-> t, tools |-> << >>, i |-> 0,
                ran |-> << >>, err |-> Nil, exitCode |-> Running]

\* run, lines 30-33: select the tools; the walk can fail on a directory
\* (error returned) or on "." itself (the callback dereferences a nil entry)
PreSelect ==
    /\ pre.pc = "select"
    /\ \/ pre' = [pre EXCEPT !.tools = SelectTools(pre.tree), !.pc = "loop"]
       \/ pre' = [pre EXCEPT !.err = Err(<<"select tools: walk over '.'">>),
                             !.pc = "main_return"]
       \/ pre' = [pre EXCEPT !.exitCode = 2, !.pc = "exited"]
    /\ UNCHANGED <<hookVars, probe>>

\* run, lines 35-49: one iteration of the loop
PreRunTool ==
    /\ pre.pc = "loop"
    /\ pre.i < Len(pre.tools)
    /\ \E out \in ToolOutcomes :
         LET tool == pre.tools[pre.i + 1]
             ran  == Append(pre.ran, [name |-> tool.name, outcome |-> out])
         IN
         pre' =
           CASE out = "exit" /\ tool.allowfail ->
                  [pre EXCEPT !.ran = ran, !.i = pre.i + 1]
             [] out = "exit" /\ ~tool.allowfail ->
                  [pre EXCEPT !.ran = ran, !.pc = "main_return",
                              !.err = Err(<<"exited with nonzero status">>)]
             [] out = "error" ->
                  [pre EXCEPT !.ran = ran, !.pc = "main_return",
                              !.err = Err(<<"unexpected error">>)]
             [] OTHER ->
                  [pre EXCEPT !.ran = ran, !.i = pre.i + 1]
    /\ UNCHANGED <<hookVars, probe>>

\* run, line 50: the loop is over
PreRunReturn ==
    /\ pre.pc = "loop"
    /\ pre.i >= Len(pre.tools)
    /\ pre' = [pre EXCEPT !.pc = "main_return"]
    /\ UNCHANGED <<hookVars, probe>>

\* main, lines 22-27
PreMainReturn ==
    /\ pre.pc = "main_return"
    /\ pre' = [pre EXCEPT !.exitCode = IF pre.err.isErr THEN 1 ELSE 0,
                          !.pc = "exited"]
    /\ UNCHANGED <<hookVars, probe>>

PreCommitNext == PreSelect \/ PreRunTool \/ PreRunReturn \/ PreMainReturn

PreCommitSpec == PreCommitInit /\ [][PreCommitNext]_vars

(* --------------------------- observations ------------------------------ *)

HasLog(text) == \E i \in DOMAIN stderr : stderr[i].msg = text

HasLogAt(level, text) ==
    \E i \in DOMAIN stderr : stderr[i].level = level /\ stderr[i].msg = text

Skipped == CiSkip \in DOMAIN pushOptions

\* a metadata git call exited non-zero / all four metadata calls succeeded
MetadataFailed == HasLog(<<"run git">>)
MetadataSucceeded == Len(gitLog) >= 4 /\ ~MetadataFailed

Sent(backend) == \E i \in DOMAIN httpLog : httpLog[i].backend = backend

BuildkiteFatal == HasLog(<<"unexpected response from buildkite">>)
TektonFatal    == HasLog(<<"unexpected response from tekton">>)

\* the closure ran: it returned an error, returned a summary, or was fatal
BuildkiteAttempted == bkErr.isErr \/ buildkiteResponse # << >> \/ BuildkiteFatal
TektonAttempted    == tkErr.isErr \/ tektonResponse # << >> \/ TektonFatal

BuildkiteEnabled ==
    env.BUILDKITE_ORG_SLUG # << >> /\ env.BUILDKITE_API_TOKEN # << >>
TektonEnabled ==
    env.TEKTON_TRIGGERS_ENDPOINT # << >> /\ URLParses(env.TEKTON_TRIGGERS_ENDPOINT)

ReportWritten ==
    /\ Len(stdout) >= 4
    /\ SubSeq(stdout, Len(stdout) - 3, Len(stdout)) = ReportBlock

(* ------------------------------- claims -------------------------------- *)

\* C1: when the push options contain the key ci.skip, with or without a
\* value, no HTTP request is sent (nor any git command run or report
\* written), the skip is logged, and the process exits with status 0.
C1_SkipSendsNothing ==
    Skipped =>
        /\ httpLog = << >>
        /\ gitLog = << >>
        /\ stdout = << >>
        /\ HasLogAt("INFO", <<"skipping ci">>)
        /\ pc \in {"main_return", "exited"}
        /\ exitCode \in {Running, 0}
        /\ (pc = "exited" => exitCode = 0)

C1_Witness ==
    /\ pc = "exited"
    /\ Skipped
    /\ pushOptions[CiSkip] = << >>
    /\ exitCode = 0

\* C2: once metadata extraction has succeeded, no adapter failure
\* terminates the process: nothing is fatal, every exit has run both
\* adapters and written the report.
C2_AdapterFailuresContained ==
    MetadataSucceeded =>
        /\ \A i \in DOMAIN stderr : stderr[i].level # "FATAL"
        /\ (pc = "exited" =>
              BuildkiteAttempted /\ TektonAttempted /\ ReportWritten)

\* C3: whatever way the buildkite adapter fails, the tekton adapter is
\* still attempted afterwards.
C3_TektonAttemptedAfterBuildkiteFailure ==
    (pc = "exited" /\ MetadataSucceeded /\ (bkErr.isErr \/ BuildkiteFatal))
        => TektonAttempted

\* C4: the exit status is non-zero only when a metadata git call failed;
\* on skip and on every completed pipeline it is 0.
C4_NonZeroExitOnlyOnMetadataFailure ==
    pc = "exited" =>
        /\ (exitCode # 0 => MetadataFailed)
        /\ (Skipped \/ ReportWritten => exitCode = 0)

\* C5: when metadata extraction succeeded, standard output at exit is the
\* report block: a blank line, the buildkite line, the tekton line, a blank
\* line, whatever the adapters' outcomes.
C5_ReportAlwaysWritten ==
    (pc = "exited" /\ MetadataSucceeded) =>
        stdout = << << >>,
                    <<"\tbuildkite: ">> \o buildkiteResponse,
                    <<"\ttekton: ">> \o tektonResponse,
                    << >> >>

\* C6: when an adapter returned an error, its line of the report shows the
\* (non-empty) error text.
C6_FailureSummaryIsErrorText ==
    ReportWritten =>
        /\ (bkErr.isErr =>
              /\ bkErr.msg # << >>
              /\ stdout[Len(stdout) - 2] = <<"\tbuildkite: ">> \o bkErr.msg)
        /\ (tkErr.isErr =>
              /\ tkErr.msg # << >>
              /\ stdout[Len(stdout) - 1] = <<"\ttekton: ">> \o tkErr.msg)

\* C7: each adapter sends its request exactly when its own credentials
\* are usable, whatever the other adapter's credentials are.
C7_OwnCredentialsDecide ==
    (pc = "exited" /\ MetadataSucceeded) =>
        /\ (Sent("buildkite") <=> BuildkiteEnabled)
        /\ (Sent("tekton") <=> TektonEnabled)

\* C8: when a metadata git call fails, the process has exited with status
\* 1, no HTTP request was sent, ci.cue was not read and nothing was written
\* to standard output.
C8_MetadataFailureAborts ==
    MetadataFailed =>
        /\ pc = "exited"
        /\ exitCode = 1
        /\ httpLog = << >>
        /\ ciCue = "unread"
        /\ \A i \in DOMAIN gitLog : gitLog[i][1] # "cat-file"
        /\ stdout = << >>

C8_Witness ==
    /\ pc = "exited"
    /\ MetadataFailed
    /\ Len(gitLog) = 4
    /\ env.BUILDKITE_ORG_SLUG # << >>
    /\ env.BUILDKITE_API_TOKEN # << >>

C10_PayloadDescribesNewRev ==
    \A i \in DOMAIN httpLog :
        LET b == httpLog[i].body IN
        /\ b.commit = newRev
        /\ b.message = CommitMessage(newRev)
        /\ IF httpLog[i].backend = "buildkite"
           THEN /\ b.author.name = CommitAuthor(newRev)
                /\ b.author.email = CommitEmail(newRev)
           ELSE /\ b.author = CommitAuthor(newRev)
                /\ b.email = CommitEmail(newRev)

\* the pipeline override a committed ci.cue sets ("" when it sets none, is
\* absent or does not decode)
CommittedOverride(doc) ==
    IF doc \in {"absent", "unread"} \/ CueDecode(doc).err.isErr
    THEN << >>
    ELSE CueDecode(doc).cfg.pipeline

\* C11: the tektonPipeline field of the webhook payload is the override of
\* the ci.cue committed at newRev, omitted when there is none; the buildkite
\* payload never has the field.
C11_OverrideIsTheCommittedOne ==
    \A i \in DOMAIN httpLog :
        LET b == httpLog[i].body IN
        IF httpLog[i].backend = "tekton"
        THEN IF CommittedOverride(ciCue) = << >>
             THEN "tektonPipeline" \notin DOMAIN b
             ELSE /\ "tektonPipeline" \in DOMAIN b
                  /\ b.tektonPipeline = CommittedOverride(ciCue)
        ELSE "tektonPipeline" \notin DOMAIN b

\* number of "." among the first i - 1 characters of s
DotsBefore(s, i) == Cardinality({ j \in 1..(i - 1) : s[j] = "." })

\* C12: the sanitized name has "-dot-" where the name has ".", the name's
\* own character everywhere else and nothing more; sanitizing the result
\* again returns it unchanged.
C12_SanitizeTotalIdempotent ==
    (probe.op = "sanitize" /\ probe.stage # "in") =>
        LET n == probe.name
            o == probe.once
        IN  /\ Len(o) = Len(n) + 4 * DotsBefore(n, Len(n) + 1)
            /\ \A i \in 1..Len(n) :
                 LET k == i + 4 * DotsBefore(n, i) IN
                 IF n[i] = "."
                 THEN SubSeq(o, k, k + 4) = <<"-", "d", "o", "t", "-">>
                 ELSE o[k] = n[i]
            /\ (probe.stage = "twice" => probe.twice = o)

C12_Witness ==
    /\ probe.op = "sanitize"
    /\ probe.stage = "twice"
    /\ probe.name = <<"a", ".", ".">>
    /\ probe.twice = <<"a", "-", "d", "o", "t", "-", "-", "d", "o", "t", "-">>

\* position of the first "=" of an entry, 0 when it has none
FirstEq(e) ==
    IF \E i \in 1..Len(e) : e[i] = "="
    THEN CHOOSE i \in 1..Len(e) : e[i] = "=" /\ \A j \in 1..(i - 1) : e[j] # "="
    ELSE 0

EntryKey(e) == IF FirstEq(e) = 0 THEN e ELSE SubSeq(e, 1, FirstEq(e) - 1)

EntryValue(e) == IF FirstEq(e) = 0 THEN << >> ELSE SubSeq(e, FirstEq(e) + 1, Len(e))

\* C13: the hook skips exactly when one of the first n entries has the key
\* ci.skip; the map holds, for every key among those entries, the value of
\* the last entry with that key (empty for an entry without "="); every
\* count and every entry list gives one of the two decisions, never an error.
C13_SkipDecision ==
    (probe.op = "options" /\ probe.stage = "done") =>
        LET n == ParseInt(probe.count)
            entry(i) == GetenvOption(probe.opts, i)
            idx == { i \in 0..(n - 1) : TRUE }
        IN  /\ probe.outcome \in { "skip", "continue" }
            /\ (probe.count \in { << >>, <<"x">>, <<"-", "1">> })
                   => (probe.m = << >> /\ probe.outcome = "continue")
            /\ (probe.outcome = "skip") <=>
                   (\E i \in idx : EntryKey(entry(i)) = CiSkip)
            /\ DOMAIN probe.m = { EntryKey(entry(i)) : i \in idx }
            /\ \A i \in idx :
                 (\A j \in idx : j > i => EntryKey(entry(j)) # EntryKey(entry(i)))
                     => probe.m[EntryKey(entry(i))] = EntryValue(entry(i))

\* ci.skip=1 then ci.skip: the key is kept once, with the later, empty value
C13_Witness ==
    /\ probe.op = "options"
    /\ probe.stage = "done"
    /\ probe.count = <<"2">>
    /\ probe.opts = <<CiSkip \o <<"=", "1">>, CiSkip>>
    /\ probe.outcome = "skip"
    /\ probe.m[CiSkip] = << >>

\* the configuration file has been asked for
ConfigRead == ciCue # "unread"

\* C14: the four metadata git calls come first and in order, the config
\* read is the fifth and last git call, no adapter runs and no HTTP request
\* is sent before the config read, and the report is written only when both
\* adapters have run, as the last thing run does.
C14_StagesSequential ==
    /\ \A i \in DOMAIN gitLog :
         /\ i <= 5
         /\ (i = 1 => gitLog[i] = BranchArgs)
         /\ (i = 2 => gitLog[i] = MessageArgs)
         /\ (i = 3 => gitLog[i] = AuthorArgs)
         /\ (i = 4 => gitLog[i] = EmailArgs)
         /\ (i = 5 => gitLog[i] = CatFileArgs(newRev))
    /\ ConfigRead <=> Len(gitLog) = 5
    /\ ConfigRead => ~MetadataFailed
    /\ (httpLog # << >> \/ BuildkiteAttempted \/ TektonAttempted) => ConfigRead
    /\ Sent("tekton") => BuildkiteAttempted
    /\ ReportWritten =>
         /\ BuildkiteAttempted /\ TektonAttempted
         /\ pc \in { "main_return", "exited" }

C14_Witness ==
    /\ pc = "exited"
    /\ ReportWritten
    /\ Len(gitLog) = 5
    /\ Len(httpLog) = 2
    /\ httpLog[1].backend = "buildkite"
    /\ httpLog[2].backend = "tekton"

\* number of requests sent to a backend
Requests(backend) ==
    Cardinality({ i \in DOMAIN httpLog : httpLog[i].backend = backend })

\* C15: each adapter sends at most one HTTP request, whatever came of it,
\* so at most two requests are sent in an invocation.
C15_NoRetries ==
    /\ Requests("buildkite") <= 1
    /\ Requests("tekton") <= 1
    /\ Len(httpLog) <= 2
    /\ \A i \in DOMAIN httpLog : httpLog[i].backend \in { "buildkite", "tekton" }

\* both requests failed and the process has ended with one request each
C15_Witness ==
    /\ pc = "exited"
    /\ bkErr.isErr /\ tkErr.isErr
    /\ Requests("buildkite") = 1
    /\ Requests("tekton") = 1

\* an adapter has started
Dispatched == BuildkiteAttempted \/ TektonAttempted \/ httpLog # << >>

\* C16: once an adapter has started, the git calls made are the four
\* metadata calls, once each, and the config read, and none is added; the
\* fields are what those calls printed; every payload sent carries them, so
\* the two adapters send the same values.
C16_MetadataComputedOnce ==
    /\ \A args \in { BranchArgs, MessageArgs, AuthorArgs, EmailArgs } :
         Cardinality({ i \in DOMAIN gitLog : gitLog[i] = args }) <= 1
    /\ Dispatched =>
         /\ gitLog = <<BranchArgs, MessageArgs, AuthorArgs, EmailArgs,
                       CatFileArgs(newRev)>>
         /\ commit = newRev
         /\ branch = TrimSpace(GitOutput(BranchArgs))
         /\ message = TrimSpace(GitOutput(MessageArgs))
         /\ author = TrimSpace(GitOutput(AuthorArgs))
         /\ email = TrimSpace(GitOutput(EmailArgs))
    /\ \A i \in DOMAIN httpLog :
         LET b == httpLog[i].body IN
         IF httpLog[i].backend = "buildkite"
         THEN /\ b.commit = commit /\ b.branch = branch /\ b.message = message
              /\ b.author.name = author /\ b.author.email = email
         ELSE /\ b.commit = commit /\ b.branch = branch /\ b.message = message
              /\ b.author = author /\ b.email = email

\* both adapters have sent, for a push whose revision is not HEAD
C16_Witness ==
    /\ Sent("buildkite") /\ Sent("tekton")
    /\ head # newRev
    /\ httpLog[1].body.message = httpLog[2].body.message
    /\ message # << >>

\* the names the working directories give: base name, ".git" removed
PlainNames == { <<"a", ".", "b">>, <<"r">>, <<"/">> }

\* C17: the repo field of the webhook payload is the unsanitized name, dots
\* intact, also after the buildkite closure has sanitized the name for its
\* URL; the name run holds is that same name from the moment it is set.
C17_RepoFieldUnsanitized ==
    /\ (pc \notin { "gate", "getwd" } /\ repoName # << >>) => repoName \in PlainNames
    /\ \A i \in DOMAIN httpLog :
         IF httpLog[i].backend = "tekton"
         THEN /\ httpLog[i].body.repo = repoName
              /\ httpLog[i].body.repo \in PlainNames
         ELSE httpLog[i].url =
                BuildkiteURL(env.BUILDKITE_ORG_SLUG, SanitizeRepoName(repoName))

\* a dotted name went to buildkite sanitized and to tekton with its dots
C17_Witness ==
    /\ Len(httpLog) = 2
    /\ httpLog[1].backend = "buildkite"
    /\ httpLog[1].url = BuildkiteURL(env.BUILDKITE_ORG_SLUG,
                                     <<"a", "-", "d", "o", "t", "-", "b">>)
    /\ httpLog[2].backend = "tekton"
    /\ httpLog[2].body.repo = <<"a", ".", "b">>

GetwdFailed == HasLog(<<"failed to get working directory">>)
ScanFailed  == HasLog(<<"failed to scan post-receive input">>)

\* C18: when the working directory cannot be determined or the input line
\* does not scan into three tokens, run returns that error: no git command
\* has run, no request is sent, nothing is printed, main logs the error and
\* the process exits with status 0.
C18_EarlyFailureExitsZero ==
    (GetwdFailed \/ ScanFailed) =>
        /\ ~Skipped
        /\ runErr.isErr
        /\ gitLog = << >>
        /\ httpLog = << >>
        /\ stdout = << >>
        /\ pc \in { "main_return", "exited" }
        /\ (pc = "exited" =>
              /\ exitCode = 0
              /\ HasLogAt("ERROR", <<"failed">> \o runErr.msg))

\* a line with a fourth token: three tokens stored, the error returned
C18_Witness ==
    /\ pc = "exited"
    /\ ScanFailed
    /\ refName # << >>
    /\ runErr = Err(<<"expected newline">>)
    /\ exitCode = 0

\* the tools in the order selectTools appends them, git add last
ToolOrder ==
    <<"prettier", "cue fmt", "terraform fmt", "go mod tidy", "gofumpt",
      "go vet", "staticcheck", "go build", "git commit">>

HasExt(tree, ext) ==
    \E e \in tree : ~e.underGit /\ Len(e.name) >= Len(ext)
        /\ SubSeq(e.name, Len(e.name) - Len(ext) + 1, Len(e.name)) = ext

Wanted(tree, name) ==
    CASE name = "prettier"      -> HasExt(tree, <<".", "m", "d">>)
      [] name = "cue fmt"       -> HasExt(tree, <<".", "c", "u", "e">>)
      [] name = "terraform fmt" -> HasExt(tree, <<".", "t", "f">>)
      [] name = "git commit"    ->
            \E x \in { <<".", "m", "d">>, <<".", "c", "u", "e">>,
                       <<".", "t", "f">>, <<".", "g", "o">> } : HasExt(tree, x)
      [] OTHER                  -> HasExt(tree, <<".", "g", "o">>)

ExpectedTools(tree) ==
    LET want(name) == Wanted(tree, name) IN SelectSeq(ToolOrder, want)

\* C19: the tools run are a prefix of the selection, in its order; only the
\* last tool run can have failed, and then nothing runs after it, git add
\* included, and the exit status is 1; git add is selected last and only
\* with another tool; the exit status is 0 only when every selected tool ran
\* and succeeded.
C19_StopsAtFirstFailure ==
    pre.pc \notin { "off", "select" } =>
        LET ran   == pre.ran
            names == [k \in DOMAIN pre.tools |-> pre.tools[k].name]
            failed == ran # << >> /\ ran[Len(ran)].outcome # "ok"
        IN  /\ pre.tools # << >> => names = ExpectedTools(pre.tree)
            /\ pre.tools # << >> =>
                 /\ Len(names) >= 2
                 /\ \A k \in DOMAIN names :
                      names[k] = "git commit" <=> k = Len(names)
            /\ Len(ran) <= Len(names)
            /\ \A k \in DOMAIN ran : ran[k].name = names[k]
            /\ \A k \in DOMAIN ran : k < Len(ran) => ran[k].outcome = "ok"
            /\ failed =>
                 /\ pre.pc \in { "main_return", "exited" }
                 /\ pre.err.isErr
                 /\ (pre.pc = "exited" => pre.exitCode = 1)
                 /\ (ran[Len(ran)].name # "git commit" =>
                       \A k \in DOMAIN ran : ran[k].name # "git commit")
            /\ pre.exitCode = 0 =>
                 /\ Len(ran) = Len(names)
                 /\ \A k \in DOMAIN ran : ran[k].outcome = "ok"

\* prettier succeeded, cue fmt exited non-zero, terraform fmt and git add
\* were left out, exit status 1
C19_Witness ==
    /\ pre.pc = "exited"
    /\ pre.exitCode = 1
    /\ Len(pre.tools) = 4
    /\ pre.ran = << [name |-> "prettier", outcome |-> "ok"],
                    [name |-> "cue fmt", outcome |-> "exit"] >>

====
